---- MODULE Spec2Model ----
(***************************************************************************)
(* Connect Four websocket server (app.py): the token registry JOIN/WATCH,  *)
(* one handler coroutine per connection, replay and broadcast.             *)
(*                                                                         *)
(* One action is one run of a handler coroutine from the point where it is *)
(* resumed to its next suspension (await recv / await send / wait_closed); *)
(* asyncio runs that stretch without interleaving.  websocket.send writes  *)
(* the frame when it is called and then suspends; ws_broadcast writes to   *)
(* every open connection of the set without suspending.                    *)
(*                                                                         *)
(* A Session (game, connected) is named by the connection that created it. *)
(* The field "via" of an event is a history annotation (which call wrote   *)
(* the frame); it is not part of the JSON payload.                         *)
(***************************************************************************)
EXTENDS Integers, Sequences, FiniteSets, Bags, TLC

\* ---- bounds ----
MaxMoves == 3       \* Spec: moves accepted per game
MaxErrors == 1      \* SpecRejects: rejected moves answered in all
MaxUnread == 1      \* SpecWatch: messages a spectator sends

\* ---- the board engine (connect4) ----
Columns == 2
Rows == 4
WinLength == 4
PLAYER1 == "player1"
PLAYER2 == "player2"
None == "None"

\* the websockets: three connections, numbered in the order of their first activity
Conns == {1, 2, 3}
NoSession == 0

\* secrets.token_urlsafe(12): a fresh token per call, never repeated.
JoinKey(s) == <<"join", s>>
WatchKey(s) == <<"watch", s>>
UnknownKey == <<"unknown", 0>>

VARIABLES
    JOIN,       \* dict: key -> Session
    WATCH,      \* dict: key -> Session
    game,       \* per Session: the Connect4 object [moves, winner]
    connected,  \* per Session: the set of websockets
    pc,         \* per connection: where its handler is suspended
    open,       \* per connection: the transport is open
    event,      \* per connection: the parsed first message
    session,    \* per connection: the Session its handler holds (game, connected)
    copy,       \* per connection: game.moves.copy() of replay
    idx,        \* per connection: number of replay events written
    sent,       \* per connection: the frames written to it, in order
    exc,        \* per connection: how its handler ended
    unread      \* per connection: the messages received that no recv has taken

vars == <<JOIN, WATCH, game, connected, pc, open, event, session, copy, idx, sent, exc,
          unread>>

\* ---- dicts ----
EmptyDict == [k \in {} |-> NoSession]
SetItem(d, k, v) == [x \in DOMAIN d \cup {k} |-> IF x = k THEN v ELSE d[x]]
DelItem(d, k) == [x \in DOMAIN d \ {k} |-> d[x]]

\* ---- inbound messages (after json.loads; Malformed does not parse) ----
Malformed == [type |-> "#malformed"]
InitStart == [type |-> "init"]
InitJoin(join_key) == [type |-> "init", join |-> join_key]
InitWatch(watch_key) == [type |-> "init", watch |-> watch_key]
PlayMessage(column) == [type |-> "play", column |-> column]
OtherMessage == [type |-> "other"]

\* ---- events ----
NoEvent == [type |-> "none"]
InitEvent(join_key, watch_key) == [type |-> "init", join |-> join_key, watch |-> watch_key]
ErrorEvent(message) == [type |-> "error", message |-> message]
PlayEvent(player, column, row, via) ==
    [type |-> "play", player |-> player, column |-> column, row |-> row, via |-> via]
WinEvent(player) == [type |-> "win", player |-> player, via |-> "live"]

\* ---- Connect4 (board engine) ----
NewGame == [moves |-> <<>>, winner |-> None]

Top(moves, column) == Cardinality({i \in 1..Len(moves) : moves[i][2] = column})

Turn(moves) == IF Len(moves) % 2 = 0 THEN PLAYER1 ELSE PLAYER2

Owns(moves, player, column, row) ==
    \E i \in 1..Len(moves) : moves[i] = <<player, column, row>>

Directions == {<<1, 0>>, <<0, 1>>, <<1, 1>>, <<1, -1>>}

\* four marks of player in a line through (column, row)
LineThrough(moves, player, column, row) ==
    \E d \in Directions : \E k \in 0..(WinLength - 1) :
        \A j \in 0..(WinLength - 1) :
            Owns(moves, player, column + (j - k) * d[1], row + (j - k) * d[2])

IllegalMove(g, player, column) ==
    IF g.winner # None THEN "The game is over."
    ELSE IF player # Turn(g.moves) THEN "It isn't your turn."
    ELSE IF column < 0 \/ column >= Columns THEN "No such column."
    ELSE IF Top(g.moves, column) >= Rows THEN "This slot is full."
    ELSE None

EnginePlay(g, player, column) ==
    LET row == Top(g.moves, column)
        moves == Append(g.moves, <<player, column, row>>)
    IN  [moves |-> moves,
         winner |-> IF LineThrough(moves, player, column, row) THEN player ELSE None]

\* ---- transport ----
Send(s, c, e) == [s EXCEPT ![c] = Append(@, e)]

BroadcastAll(s, conns, e) ==
    [c \in Conns |-> IF session[c] # NoSession /\ open[c] THEN Append(s[c], e) ELSE s[c]]

BroadcastStopsAtClosed(s, conns, e) ==
    [c \in Conns |-> IF c \in conns /\ \A d \in conns : d <= c => open[d]
                       THEN Append(s[c], e)
                       ELSE s[c]]

BroadcastNewestFirst(s, conns, e) ==
    [c \in Conns |-> IF c \in conns /\ open[c]
                       THEN IF event[c] = InitStart THEN Append(s[c], e) ELSE <<e>> \o s[c]
                       ELSE s[c]]

BroadcastAfterReplay(s, conns, e) ==
    [c \in Conns |-> IF c \in conns /\ open[c] /\ pc[c] # "replay" THEN Append(s[c], e) ELSE s[c]]

\* ws_broadcast: written to the connections of the set that are open
Broadcast(s, conns, e) ==
    [c \in Conns |-> IF c \in conns /\ open[c] THEN Append(s[c], e) ELSE s[c]]

Errors(c) == Cardinality({i \in 1..Len(sent[c]) : sent[c][i].type = "error"})

RECURSIVE Sum(_, _)
Sum(f, S) == IF S = {} THEN 0 ELSE LET x == CHOOSE y \in S : TRUE IN f[x] + Sum(f, S \ {x})

\* error events written to the connections that are attached to a Session
MoveErrors == Sum([c \in Conns |-> IF session[c] = NoSession THEN 0 ELSE Errors(c)], Conns)

\* a connection acts once the connections before it have sent their first message
Arrived(c) == \A d \in Conns : d < c => pc[d] # "AwaitingInit"

Init ==
    /\ JOIN = EmptyDict
    /\ WATCH = EmptyDict
    /\ game = [s \in Conns |-> NewGame]
    /\ connected = [s \in Conns |-> {}]
    /\ pc = [c \in Conns |-> "AwaitingInit"]
    /\ open = [c \in Conns |-> TRUE]
    /\ event = [c \in Conns |-> NoEvent]
    /\ session = [c \in Conns |-> NoSession]
    /\ copy = [c \in Conns |-> <<>>]
    /\ idx = [c \in Conns |-> 0]
    /\ sent = [c \in Conns |-> <<>>]
    /\ exc = [c \in Conns |-> None]
    /\ unread = [c \in Conns |-> <<>>]

\* the handler of c ends: websockets closes the connection
HandlerExit(c, e) ==
    /\ pc' = [pc EXCEPT ![c] = "Closed"]
    /\ open' = [open EXCEPT ![c] = FALSE]
    /\ exc' = [exc EXCEPT ![c] = e]

PlayerByTurn(c) == Turn(game[session[c]].moves)

\* the player a handler plays for: start passes PLAYER1, join passes PLAYER2
Player(c) == IF "join" \in DOMAIN event[c] THEN PLAYER2 ELSE PLAYER1

\* finally-block of start
StartFinally(c, e) ==
    /\ JOIN' = DelItem(JOIN, JoinKey(c))
    /\ IF WatchKey(c) \in DOMAIN WATCH
         THEN WATCH' = DelItem(WATCH, WatchKey(c)) /\ HandlerExit(c, e)
         ELSE WATCH' = WATCH /\ HandlerExit(c, "KeyError")
    /\ UNCHANGED connected

AttachFinallyDeletes(c, e) ==
    /\ connected' = [connected EXCEPT ![session[c]] = @ \ {c}]
    /\ HandlerExit(c, e)
    /\ JOIN' = DelItem(JOIN, JoinKey(session[c]))
    /\ UNCHANGED WATCH

\* finally-block of join and of watch
AttachFinally(c, e) ==
    /\ connected' = [connected EXCEPT ![session[c]] = @ \ {c}]
    /\ HandlerExit(c, e)
    /\ UNCHANGED <<JOIN, WATCH>>

\* handler -> start
Start(c) ==
    /\ pc[c] = "AwaitingInit" /\ open[c] /\ Arrived(c)
    /\ event' = [event EXCEPT ![c] = InitStart]
    /\ game' = [game EXCEPT ![c] = NewGame]
    /\ connected' = [connected EXCEPT ![c] = {c}]
    /\ JOIN' = SetItem(SetItem(JOIN, JoinKey(c), c), WatchKey(c), c)
    /\ session' = [session EXCEPT ![c] = c]
    /\ sent' = Send(sent, c, InitEvent(JoinKey(c), WatchKey(c)))
    /\ pc' = [pc EXCEPT ![c] = "play"]
    /\ UNCHANGED <<WATCH, open, copy, idx, exc, unread>>

ReplayMoveReversed(moves, i) ==
    LET m == moves[Len(moves) - i] IN PlayEvent(m[1], m[2], m[3], "replay")

\* replay: the event of the move the loop reaches after i iterations
ReplayMove(moves, i) ==
    LET m == moves[i + 1] IN PlayEvent(m[1], m[2], m[3], "replay")

ReplayNoCopy(c) == game[session[c]].moves

\* replay: the list the loop iterates over
ReplaySource(c) == copy[c]

\* the first await of replay: the copy is taken and its first move written
BeginReplay(c, s, after) ==
    LET moves == game[s].moves IN
    /\ copy' = [copy EXCEPT ![c] = moves]
    /\ IF Len(moves) = 0
         THEN /\ sent' = sent
              /\ idx' = idx
              /\ pc' = [pc EXCEPT ![c] = after]
         ELSE /\ sent' = Send(sent, c, ReplayMove(moves, 0))
              /\ idx' = [idx EXCEPT ![c] = 1]
              /\ pc' = [pc EXCEPT ![c] = IF Len(moves) = 1 THEN after ELSE "replay"]

AttachSilent(c, key, after) ==
    IF key \in DOMAIN JOIN
    THEN /\ session' = [session EXCEPT ![c] = JOIN[key]]
         /\ connected' = [connected EXCEPT ![JOIN[key]] = @ \cup {c}]
         /\ BeginReplay(c, JOIN[key], after)
         /\ UNCHANGED <<JOIN, WATCH, game, open, exc, unread>>
    ELSE /\ HandlerExit(c, "return")
         /\ UNCHANGED <<JOIN, WATCH, game, connected, session, copy, idx, sent, unread>>

\* join and watch both look the key up in JOIN
Attach(c, key, after) ==
    IF key \in DOMAIN JOIN
    THEN /\ session' = [session EXCEPT ![c] = JOIN[key]]
         /\ connected' = [connected EXCEPT ![JOIN[key]] = @ \cup {c}]
         /\ BeginReplay(c, JOIN[key], after)
         /\ UNCHANGED <<JOIN, WATCH, game, open, exc, unread>>
    ELSE /\ sent' = Send(sent, c, ErrorEvent("Game not found"))
         /\ HandlerExit(c, "return")
         /\ UNCHANGED <<JOIN, WATCH, game, connected, session, copy, idx, unread>>

\* handler -> join
Join(c, join_key) ==
    /\ pc[c] = "AwaitingInit" /\ open[c] /\ Arrived(c)
    /\ event' = [event EXCEPT ![c] = InitJoin(join_key)]
    /\ Attach(c, join_key, "play")

\* handler -> watch
Watch(c, watch_key) ==
    /\ pc[c] = "AwaitingInit" /\ open[c] /\ Arrived(c)
    /\ event' = [event EXCEPT ![c] = InitWatch(watch_key)]
    /\ Attach(c, watch_key, "wait_closed")

\* handler: the first message does not parse, or is not an init
BadInit(c, message) ==
    /\ pc[c] = "AwaitingInit" /\ open[c] /\ Arrived(c)
    /\ message \in {Malformed, PlayMessage(0)}
    /\ event' = [event EXCEPT ![c] = message]
    /\ HandlerExit(c, IF message = Malformed THEN "JSONDecodeError" ELSE "AssertionError")
    /\ UNCHANGED <<JOIN, WATCH, game, connected, session, copy, idx, sent, unread>>

\* replay: the previous send completed, the next move of the copy is written
Replay(c) ==
    /\ pc[c] = "replay" /\ open[c]
    /\ sent' = Send(sent, c, ReplayMove(ReplaySource(c), idx[c]))
    /\ idx' = [idx EXCEPT ![c] = @ + 1]
    /\ pc' = [pc EXCEPT ![c] =
                 IF idx[c] + 1 < Len(ReplaySource(c)) THEN "replay"
                 ELSE IF "watch" \in DOMAIN event[c] THEN "wait_closed" ELSE "play"]
    /\ UNCHANGED <<JOIN, WATCH, game, connected, open, event, session, copy, exc, unread>>

BroadcastMoveIndexAsRow(c, s, g, row, column) ==
    LET played == Broadcast(sent, connected[s],
                            PlayEvent(Player(c), column, Len(g.moves) - 1, "live"))
    IN  IF g.winner # None
        THEN Broadcast(played, connected[s], WinEvent(g.winner))
        ELSE played

BroadcastMoveWinToMover(c, s, g, row, column) ==
    LET played == Broadcast(sent, connected[s], PlayEvent(Player(c), column, row, "live"))
    IN  IF g.winner # None
        THEN Send(played, c, WinEvent(g.winner))
        ELSE played

\* play: the two broadcasts of an accepted move
BroadcastMove(c, s, g, row, column) ==
    LET played == Broadcast(sent, connected[s], PlayEvent(Player(c), column, row, "live"))
    IN  IF g.winner # None
        THEN Broadcast(played, connected[s], WinEvent(g.winner))
        ELSE played

RejectMoveBroadcast(c, message) == Broadcast(sent, connected[session[c]], ErrorEvent(message))

RejectMoveWin(c, message) ==
    IF game[session[c]].winner # None
    THEN Broadcast(Send(sent, c, ErrorEvent(message)), connected[session[c]],
                   WinEvent(game[session[c]].winner))
    ELSE Send(sent, c, ErrorEvent(message))

\* play: the except-branch, error(websocket, str(e)) and continue
RejectMove(c, message) == Send(sent, c, ErrorEvent(message))

\* play: one message of the loop that parses as a play event
PlayMove(c, column) ==
    LET s == session[c]
        message == IllegalMove(game[s], Player(c), column)
    IN  IF message # None
        THEN /\ sent' = RejectMove(c, message)
             /\ UNCHANGED game
        ELSE LET g == EnginePlay(game[s], Player(c), column) IN
             /\ game' = [game EXCEPT ![s] = g]
             /\ sent' = BroadcastMove(c, s, g, g.moves[Len(g.moves)][3], column)

Play(c, column) ==
    /\ pc[c] = "play" /\ open[c]
    /\ PlayMove(c, column)
    /\ UNCHANGED <<JOIN, WATCH, connected, pc, open, event, session, copy, idx, exc, unread>>

\* play: a message that does not parse or is not a play event ends the handler
BadPlay(c, message) ==
    /\ pc[c] = "play" /\ open[c]
    /\ message \in {Malformed, OtherMessage}
    /\ LET e == IF message = Malformed THEN "JSONDecodeError" ELSE "AssertionError" IN
         IF Player(c) = PLAYER1 THEN StartFinally(c, e) ELSE AttachFinally(c, e)
    /\ UNCHANGED <<game, event, session, copy, idx, sent, unread>>

\* the peer or the network closes the connection
PeerClose(c) ==
    /\ open[c] /\ Arrived(c)
    /\ open' = [open EXCEPT ![c] = FALSE]
    /\ UNCHANGED <<JOIN, WATCH, game, connected, pc, event, session, copy, idx, sent, exc,
                   unread>>

\* the handler is resumed at its await on a closed connection: recv and send
\* raise ConnectionClosed, the play loop and wait_closed end
ConnectionClosed(c) ==
    /\ pc[c] # "Closed" /\ ~open[c]
    /\ IF pc[c] = "AwaitingInit"
         THEN HandlerExit(c, "ConnectionClosed") /\ UNCHANGED <<JOIN, WATCH, connected>>
         ELSE IF event[c] = InitStart
         THEN StartFinally(c, "return")
         ELSE AttachFinally(c, IF pc[c] = "replay" THEN "ConnectionClosed" ELSE "return")
    /\ UNCHANGED <<game, event, session, copy, idx, sent, unread>>

SpectatorMessageRejected(c, message) ==
    /\ pc[c] = "wait_closed" /\ open[c]
    /\ unread' = [unread EXCEPT ![c] = Append(@, message)]
    /\ sent' = Send(sent, c, ErrorEvent("Spectators cannot play."))
    /\ UNCHANGED <<JOIN, WATCH, game, connected, pc, open, event, session, copy, idx, exc>>

\* watch: a message arrives while the handler awaits wait_closed; no recv takes it
SpectatorMessage(c, message) ==
    /\ pc[c] = "wait_closed" /\ open[c]
    /\ unread' = [unread EXCEPT ![c] = Append(@, message)]
    /\ UNCHANGED <<JOIN, WATCH, game, connected, pc, open, event, session, copy, idx, sent,
                   exc>>

\* the keys a peer can present: those handed out so far, and one that never was
Keys ==
    {JoinKey(s) : s \in {d \in Conns : event[d] = InitStart}}
    \cup {WatchKey(s) : s \in {d \in Conns : event[d] = InitStart}}
    \cup {UnknownKey}

\* the inputs a peer sends in the play loop, within the bounds
Rejected(c, column) == IllegalMove(game[session[c]], Player(c), column) # None

Bounded(c, column, max_moves, max_errors) ==
    IF Rejected(c, column) THEN MoveErrors < max_errors
    ELSE Len(game[session[c]].moves) < max_moves

\* the first message of a connection
Handshake(c) ==
    \/ Start(c)
    \/ \E key \in Keys : Join(c, key)
    \/ \E key \in Keys : Watch(c, key)
    \/ \E message \in {Malformed, PlayMessage(0)} : BadInit(c, message)

\* a play message of a player, column Columns being out of range
Moves(c, max_moves, max_errors) ==
    \E column \in 0..Columns :
        pc[c] = "play" /\ Bounded(c, column, max_moves, max_errors) /\ Play(c, column)

\* a handler ends: a message that is no play event, or the connection closes
Failures(c) ==
    \/ \E message \in {Malformed, OtherMessage} : BadPlay(c, message)
    \/ PeerClose(c)
    \/ ConnectionClosed(c)

\* three connections in any role, games of at most MaxMoves accepted moves
Next == \E c \in Conns : Handshake(c) \/ Replay(c) \/ Moves(c, MaxMoves, 0) \/ Failures(c)

Spec == Init /\ [][Next]_vars

\* two connections, games played to the end, every play message accepted
NextGame == \E c \in {1, 2} : Handshake(c) \/ Moves(c, Columns * Rows, 0) \/ Failures(c)

SpecGame == Init /\ [][NextGame]_vars

\* two connections that stay open, games played to the end, at most MaxErrors
\* play messages rejected
NextRejects == \E c \in {1, 2} : Handshake(c) \/ Moves(c, Columns * Rows, MaxErrors)

SpecRejects == Init /\ [][NextRejects]_vars

\* three connections that stay open, games of at most MaxMoves accepted moves,
\* at most MaxUnread messages from each spectator
NextWatch ==
    \E c \in Conns :
        \/ Handshake(c) \/ Replay(c) \/ Moves(c, MaxMoves, 0)
        \/ \E message \in {PlayMessage(0), OtherMessage} :
              Len(unread[c]) < MaxUnread /\ SpectatorMessage(c, message)

SpecWatch == Init /\ [][NextWatch]_vars

\* ---- helpers of the properties ----
Creator(s) == event[s] = InitStart
Exited(c) == pc[c] = "Closed"
Attached(c) == session[c] # NoSession /\ ~Creator(c)
HasError(c) == \E i \in 1..Len(sent[c]) : sent[c][i].type = "error"
TokensOf(s) ==
    {InitJoin(JoinKey(s)), InitJoin(WatchKey(s)), InitWatch(JoinKey(s)), InitWatch(WatchKey(s))}

\* C1: once the creator's handler (start) has exited, every init carrying the
\* join key or the watch key of its Session, by join or by watch, is answered
\* with the 'Game not found' error and attaches the connection to nothing.
C1_TokensInvalidated ==
    [][\A c \in Conns, s \in Conns :
        (/\ Creator(s) /\ Exited(s)
         /\ pc[c] = "AwaitingInit" /\ pc'[c] # "AwaitingInit"
         /\ event'[c] \in TokensOf(s))
        => (/\ sent'[c] = <<ErrorEvent("Game not found")>>
            /\ session'[c] = NoSession
            /\ c \notin connected'[s])]_vars

\* C2: join keys and watch keys are separate namespaces: no connection is
\* attached to a Session through join with a watch key, nor through watch with
\* a join key.
C2_SeparateNamespaces ==
    \A c \in Conns : Attached(c) =>
        /\ "join" \in DOMAIN event[c] => event[c].join = JoinKey(session[c])
        /\ "watch" \in DOMAIN event[c] => event[c].watch = WatchKey(session[c])

\* C3: a connection whose handler has exited, in any role and by any path, is
\* in the subscriber set of no Session.
C3_ExitedNotSubscribed ==
    \A c \in Conns : Exited(c) => \A s \in Conns : c \notin connected[s]

\* C10: a handler whose first message is not an init (wrong type or malformed)
\* has written an error event to its connection when it has ended, has
\* created no Session and joined no subscriber set.
C10_BadInitAnswered ==
    \A c \in Conns : (Exited(c) /\ event[c] \in {Malformed, PlayMessage(0)}) =>
        /\ HasError(c)
        /\ session[c] = NoSession
        /\ \A s \in Conns : c \notin connected[s]

\* ---- events a connection has received ----
IsReplay(e) == e.type = "play" /\ e.via = "replay"
IsLive(e) == e.type \in {"play", "win"} /\ e.via = "live"
IsPlay(e) == e.type = "play"
Log(c) == game[session[c]].moves
MoveOf(e) == <<e.player, e.column, e.row>>

\* the replay events of the first n moves of a list
ReplayOf(moves, n) == [i \in 1..n |-> PlayEvent(moves[i][1], moves[i][2], moves[i][3], "replay")]

\* the events broadcast for the moves of g after its first n moves
LiveAfter(g, n) ==
    LET plays == [i \in 1..(Len(g.moves) - n) |->
                    PlayEvent(g.moves[n + i][1], g.moves[n + i][2], g.moves[n + i][3], "live")]
    IN  IF g.winner # None /\ Len(g.moves) > n THEN Append(plays, WinEvent(g.winner)) ELSE plays

\* the replay events of c are the first idx[c] moves of the log at attach, in
\* log order, all of them once its replay is over; its live events are the
\* events of the moves played since, in the order they were played
ReplayThenLive(c) ==
    /\ copy[c] = SubSeq(Log(c), 1, Len(copy[c]))
    /\ SelectSeq(sent[c], IsReplay) = ReplayOf(copy[c], idx[c])
    /\ (open[c] /\ pc[c] # "replay") => idx[c] = Len(copy[c])
    /\ open[c] => SelectSeq(sent[c], IsLive) = LiveAfter(game[session[c]], Len(copy[c]))

NoLiveBeforeReplay(c) ==
    \A i, j \in 1..Len(sent[c]) : (i < j /\ IsLive(sent[c][i])) => ~IsReplay(sent[c][j])

\* C4 (as stated): a connection attached by join or watch at N moves receives
\* exactly those N moves as replay events, in log order, before any live
\* event, and every event broadcast after it subscribed.
C4_ReplayBeforeLive ==
    \A c \in Conns : Attached(c) => (ReplayThenLive(c) /\ NoLiveBeforeReplay(c))

\* C4 (amended): a connection attached by join or watch at N moves receives
\* exactly those N moves as replay events, in log order, and, while it is
\* open, every event broadcast after it subscribed, in broadcast order; a live
\* event may arrive before the replay events that are still to be sent.
C4_ReplayAndLive ==
    \A c \in Conns : Attached(c) => ReplayThenLive(c)

C4_Witness ==
    \E c \in Conns :
        /\ Attached(c) /\ open[c] /\ pc[c] # "replay" /\ Len(copy[c]) >= 2
        /\ ~NoLiveBeforeReplay(c)

\* the number of play events of move k of the log that c has received
Deliveries(c, k) ==
    Cardinality({i \in 1..Len(sent[c]) : IsPlay(sent[c][i]) /\ MoveOf(sent[c][i]) = Log(c)[k]})

\* C5: an open connection attached by join or watch has received every move of
\* the log exactly once, except the moves its replay has still to send, which
\* it has not received yet: the moves recorded before it subscribed only by
\* replay, the moves played after only by broadcast, also when moves are
\* played while its replay is in progress.
C5_EachMoveOnce ==
    \A c \in Conns : (Attached(c) /\ open[c]) =>
        /\ \A k \in 1..Len(Log(c)) :
              Deliveries(c, k) = IF k > idx[c] /\ k <= Len(copy[c]) THEN 0 ELSE 1
        /\ \A i \in 1..Len(sent[c]) : IsPlay(sent[c][i]) =>
              \E k \in 1..Len(Log(c)) :
                  /\ MoveOf(sent[c][i]) = Log(c)[k]
                  /\ sent[c][i].via = IF k <= Len(copy[c]) THEN "replay" ELSE "live"
        /\ pc[c] # "replay" => idx[c] = Len(copy[c])

C5_Witness ==
    \E c \in Conns :
        /\ Attached(c) /\ open[c] /\ pc[c] = "replay"
        /\ Len(Log(c)) > Len(copy[c])

\* the bag of the elements of a sequence
BagOf(seq) ==
    [x \in {seq[i] : i \in 1..Len(seq)} |-> Cardinality({i \in 1..Len(seq) : seq[i] = x})]

PlaysOf(c) == LET plays == SelectSeq(sent[c], IsPlay) IN [i \in 1..Len(plays) |-> MoveOf(plays[i])]

\* C6: the play events received by an open subscriber whose replay is over
\* are, as a multiset, the committed move log of its Session.
C6_ViewsMatchLog ==
    \A s \in Conns : \A c \in connected[s] :
        (open[c] /\ pc[c] # "replay") => BagOf(PlaysOf(c)) = BagOf(game[s].moves)

C6_Witness ==
    \E s \in Conns : \E c, d \in connected[s] :
        /\ c # d /\ open[c] /\ open[d] /\ pc[c] # "replay" /\ pc[d] # "replay"
        /\ Attached(c) /\ Len(copy[c]) >= 2 /\ Len(game[s].moves) > Len(copy[c])
        /\ ~NoLiveBeforeReplay(c)
        /\ Creator(d)

Last(seq) == seq[Len(seq)]

\* C7: when the handler of c processes a play message the engine rejects (not
\* c's turn, column out of range, column full, game decided), one error event
\* is written to c only, nothing is broadcast, the board and the log are
\* unchanged, and c stays subscribed and in its play loop.
C7_RejectedMove ==
    [][\A c \in Conns : \A column \in 0..Columns :
        (pc[c] = "play" /\ Rejected(c, column) /\ Play(c, column)) =>
            /\ sent'[c] = Append(sent[c],
                    ErrorEvent(IllegalMove(game[session[c]], Player(c), column)))
            /\ \A d \in Conns \ {c} : sent'[d] = sent[d]
            /\ game' = game
            /\ connected' = connected /\ c \in connected'[session[c]]
            /\ pc'[c] = "play" /\ open'[c]]_vars

C7_Witness ==
    \E s \in Conns : \E c, d \in connected[s] :
        /\ c # d /\ session[c] = s
        /\ pc[c] = "play" /\ open[c] /\ open[d]
        /\ Len(sent[c]) > 0 /\ Last(sent[c]) = ErrorEvent("No such column.")
        /\ ~HasError(d)

\* C8: an accepted move is broadcast as one play event to every open
\* connection of the Session's subscriber set, the mover's included, followed
\* at once by the win event to the same connections if the move ended the
\* game; nothing else is written and the subscriber set does not change.
C8_MoveBroadcast ==
    [][\A s \in Conns : game'[s].moves # game[s].moves =>
        LET m == Last(game'[s].moves)
            events == IF game'[s].winner # None
                      THEN <<PlayEvent(m[1], m[2], m[3], "live"), WinEvent(game'[s].winner)>>
                      ELSE <<PlayEvent(m[1], m[2], m[3], "live")>>
        IN  /\ game'[s].moves = Append(game[s].moves, m)
            /\ \A c \in Conns :
                  sent'[c] = IF c \in connected[s] /\ open[c] THEN sent[c] \o events ELSE sent[c]
            /\ \E c \in connected[s] :
                  open[c] /\ pc[c] = "play" /\ session[c] = s /\ Player(c) = m[1]
            /\ connected' = connected]_vars

C8_Witness ==
    \E s \in Conns : \E c, d \in connected[s] :
        /\ c # d /\ open[c] /\ open[d]
        /\ game[s].winner # None
        /\ \A x \in {c, d} :
              /\ Len(sent[x]) >= 2
              /\ Last(sent[x]) = WinEvent(game[s].winner)
              /\ IsPlay(sent[x][Len(sent[x]) - 1]) /\ sent[x][Len(sent[x]) - 1].via = "live"

\* C9: a connection receives at most one win event, and no broadcast play
\* event after it, whatever the players send after the game is decided.
C9_OneWin ==
    \A c \in Conns : \A i, j \in 1..Len(sent[c]) :
        (i < j /\ sent[c][i].type = "win") =>
            /\ sent[c][j].type # "win"
            /\ ~(IsPlay(sent[c][j]) /\ sent[c][j].via = "live")

C9_Witness ==
    \E c \in Conns : \E i \in 1..Len(sent[c]) :
        /\ sent[c][i].type = "win"
        /\ i < Len(sent[c]) /\ Last(sent[c]) = ErrorEvent("The game is over.")

\* the key an init message of type join or watch presents
Presents(message, key) ==
    \/ "join" \in DOMAIN message /\ message.join = key
    \/ "watch" \in DOMAIN message /\ message.watch = key

\* C11: an init message whose join or watch key is not registered is answered
\* with exactly one error event and ends the handler; the registry, every
\* subscriber set, every board and log stay as they were, and that connection
\* receives no replay and no play event.
C11_UnknownToken ==
    [][\A c \in Conns :
          (pc[c] = "AwaitingInit" /\ \E key \in Keys \ DOMAIN JOIN : Presents(event'[c], key)) =>
              /\ sent'[c] = <<ErrorEvent("Game not found")>>
              /\ pc'[c] = "Closed" /\ exc'[c] = "return"
              /\ session'[c] = NoSession
              /\ \A d \in Conns \ {c} : sent'[d] = sent[d]
              /\ UNCHANGED <<JOIN, WATCH, game, connected>>]_vars

C11_Witness ==
    \E c, s \in Conns :
        /\ Creator(s) /\ Exited(s) /\ Len(game[s].moves) >= 1
        /\ event[c] = InitJoin(JoinKey(s))
        /\ Exited(c) /\ session[c] = NoSession
        /\ sent[c] = <<ErrorEvent("Game not found")>>
        /\ \E d \in connected[s] : d # s /\ open[d]

\* C12: a message a spectator sends after its replay, a well-formed play
\* message included, is ignored: the spectator gets no error event, nothing
\* is broadcast, no board and no log changes, and it stays subscribed.
C12_SpectatorIgnored ==
    [][\A c \in Conns :
          unread'[c] # unread[c] =>
              /\ "watch" \in DOMAIN event[c] /\ pc[c] = "wait_closed"
              /\ c \in connected'[session[c]] /\ pc'[c] = "wait_closed" /\ open'[c]
              /\ ~\E i \in 1..Len(sent'[c]) : sent'[c][i].type = "error"
              /\ UNCHANGED <<JOIN, WATCH, game, connected, sent, pc, open, exc>>]_vars

C12_Witness ==
    \E c \in Conns :
        /\ "watch" \in DOMAIN event[c] /\ pc[c] = "wait_closed" /\ open[c]
        /\ unread[c] = <<PlayMessage(0)>>
        /\ Len(copy[c]) >= 1 /\ Len(Log(c)) > Len(copy[c])
        /\ c \in connected[session[c]] /\ ~HasError(c)
        /\ SelectSeq(sent[c], IsPlay) # <<>>

\* C13: when the handler of a joiner or of a spectator exits, only that
\* connection leaves the subscriber set of its Session; the registry, every
\* board and log and the other subscribers stay as they were, so both keys of
\* the Session still resolve to it while its creator is connected.
C13_AttachedExit ==
    [][\A c \in Conns :
          (Attached(c) /\ ~Exited(c) /\ pc'[c] = "Closed") =>
              LET s == session[c] IN
              /\ connected' = [connected EXCEPT ![s] = @ \ {c}]
              /\ UNCHANGED <<JOIN, WATCH, game, session>>
              /\ (Creator(s) /\ pc'[s] # "Closed") =>
                    \A key \in {JoinKey(s), WatchKey(s)} :
                        key \in DOMAIN JOIN' /\ JOIN'[key] = s]_vars

C13_Witness ==
    \E c, d \in Conns :
        LET s == session[c] IN
        /\ Attached(c) /\ Exited(c) /\ c \notin connected[s]
        /\ Creator(s) /\ pc[s] = "play" /\ open[s]
        /\ d \notin {c, s} /\ d \in connected[s] /\ open[d]
        /\ Len(game[s].moves) >= 1
        /\ JoinKey(s) \in DOMAIN JOIN /\ WatchKey(s) \in DOMAIN JOIN

Has(c, e) == \E i \in 1..Len(sent[c]) : sent[c][i] = e

\* C14: the row of every play event, broadcast or replayed, is the number of
\* earlier moves of the log of its Session in the same column.
C14_Gravity ==
    \A c \in Conns : \A i \in 1..Len(sent[c]) :
        IsPlay(sent[c][i]) =>
            \E k \in 1..Len(Log(c)) :
                /\ Log(c)[k] = MoveOf(sent[c][i])
                /\ sent[c][i].row =
                      Cardinality({j \in 1..(k - 1) : Log(c)[j][2] = sent[c][i].column})

C14_Witness ==
    \E c, d \in Conns :
        /\ c # d /\ session[c] = session[d] /\ session[c] # NoSession
        /\ Has(c, PlayEvent(PLAYER1, 0, 0, "live")) /\ Has(c, PlayEvent(PLAYER2, 0, 1, "live"))
        /\ Has(d, PlayEvent(PLAYER1, 0, 0, "replay")) /\ Has(d, PlayEvent(PLAYER2, 0, 1, "replay"))
        /\ Has(d, PlayEvent(PLAYER1, 1, 0, "live"))

\* C15: once the handler of the creator of a Session has exited, no move is
\* accepted on that Session and no play or win event is broadcast on it, also
\* when a joiner is still attached and goes on sending play messages.
C15_NoMoveAfterCreatorExit ==
    [][\A s \in Conns :
          (Creator(s) /\ Exited(s)) =>
              /\ game'[s] = game[s]
              /\ \A c \in Conns :
                    session[c] = s => SelectSeq(sent'[c], IsLive) = SelectSeq(sent[c], IsLive)]_vars

\* the place of a live event in the order the moves of the Session of c were
\* committed: a play event at its move, the win event after the last move
Commit(c, e) ==
    IF IsPlay(e) THEN 2 * (CHOOSE k \in 1..Len(Log(c)) : Log(c)[k] = MoveOf(e))
                 ELSE 2 * Len(Log(c)) + 1

\* C16: two subscribers of a Session that both received the same two live
\* events received them in the same order, the order the moves were committed.
C16_SameOrder ==
    \A c, d \in Conns :
        (session[c] # NoSession /\ session[c] = session[d]) =>
            \A i, j \in 1..Len(sent[c]) :
                (i < j /\ IsLive(sent[c][i]) /\ IsLive(sent[c][j])) =>
                    \A k, l \in 1..Len(sent[d]) :
                        (sent[d][k] = sent[c][i] /\ sent[d][l] = sent[c][j]) =>
                            /\ k < l
                            /\ Commit(c, sent[c][i]) < Commit(c, sent[c][j])

C16_Witness ==
    \E c, d \in Conns :
        /\ c # d /\ session[c] # NoSession /\ session[c] = session[d]
        /\ open[c] /\ open[d]
        /\ Len(SelectSeq(sent[c], IsLive)) >= 3
        /\ SelectSeq(sent[c], IsLive) = SelectSeq(sent[d], IsLive)

\* C17: a broadcast issued while the subscriber set holds a connection that
\* has closed is delivered to every open subscriber and to no closed one, and
\* the handler that issued it goes on to its next message without an error.
C17_ClosedSkipped ==
    [][\A s \in Conns :
          (game'[s].moves # game[s].moves /\ \E d \in connected[s] : ~open[d]) =>
              LET m == Last(game'[s].moves)
                  play == PlayEvent(m[1], m[2], m[3], "live")
              IN  /\ \A c \in connected[s] :
                        /\ open[c] => (Len(sent'[c]) > Len(sent[c]) /\ sent'[c][Len(sent[c]) + 1] = play)
                        /\ ~open[c] => sent'[c] = sent[c]
                  /\ \E c \in connected[s] :
                        /\ open[c] /\ pc[c] = "play" /\ Player(c) = m[1]
                        /\ open'[c] /\ pc'[c] = "play" /\ exc'[c] = None
                        /\ ~\E i \in 1..Len(sent'[c]) : sent'[c][i].type = "error"]_vars

C17_Witness ==
    \E s \in Conns : \E c, d, x \in connected[s] :
        /\ c # d /\ x \notin {c, d}
        /\ ~open[d] /\ idx[d] = Len(copy[d])
        /\ open[c] /\ pc[c] = "play" /\ exc[c] = None /\ open[x]
        /\ Len(PlaysOf(d)) < Len(game[s].moves)
        /\ Len(PlaysOf(c)) = Len(game[s].moves)
        /\ Len(PlaysOf(x)) = Len(game[s].moves)

\* the player a connection moves for: the creator of a Session is player-1,
\* a connection attached through join is player-2
Role(c) == IF Creator(c) THEN PLAYER1 ELSE PLAYER2

Alternates(moves) ==
    \A k \in 1..Len(moves) : moves[k][1] = IF k % 2 = 1 THEN PLAYER1 ELSE PLAYER2

\* C18: the players of a log alternate, player-1 first; an accepted move of
\* the creator is recorded as player-1 and an accepted move of a connection
\* attached through join as player-2, also when several connections redeemed
\* the same join key.
C18_Alternation ==
    [][/\ \A s \in Conns : Alternates(game'[s].moves)
       /\ \A c \in Conns : \A column \in 0..Columns :
             (pc[c] = "play" /\ ~Rejected(c, column) /\ Play(c, column)) =>
                 /\ Creator(c) \/ "join" \in DOMAIN event[c]
                 /\ Len(game'[session[c]].moves) = Len(game[session[c]].moves) + 1
                 /\ Last(game'[session[c]].moves)[1] = Role(c)
                 /\ Last(game'[session[c]].moves)[2] = column]_vars

C18_Witness ==
    \E c, d \in Conns :
        /\ c # d /\ "join" \in DOMAIN event[c] /\ event[d] = event[c]
        /\ session[c] # NoSession /\ session[d] = session[c]
        /\ pc[c] = "play" /\ pc[d] = "play" /\ open[c] /\ open[d]
        /\ Len(copy[c]) = 0 /\ Len(copy[d]) = 1
        /\ Len(Log(c)) = 3
        /\ Has(c, PlayEvent(PLAYER2, 1, 0, "live")) /\ Has(d, PlayEvent(PLAYER2, 1, 0, "live"))

\* C19: Sessions are isolated: a move on one Session changes the board and
\* the log of that Session only and is delivered to its subscribers only; no
\* connection is in two subscriber sets; no key resolves to a Session other
\* than the one it was created with.
C19_Isolation ==
    [][/\ \A s \in Conns :
             game'[s] # game[s] =>
                 /\ \A t \in Conns \ {s} : game'[t] = game[t]
                 /\ \A c \in Conns \ connected[s] : sent'[c] = sent[c]
       /\ \A c \in Conns : Cardinality({s \in Conns : c \in connected'[s]}) <= 1
       /\ \A key \in DOMAIN JOIN' : JOIN'[key] = key[2]
       /\ \A key \in DOMAIN WATCH' : WATCH'[key] = key[2]]_vars

C19_Witness ==
    \E s, t, x \in Conns :
        /\ s # t /\ Creator(s) /\ Creator(t) /\ open[s] /\ open[t]
        /\ Attached(x) /\ session[x] = s /\ open[x]
        /\ Len(game[s].moves) = 2 /\ Len(game[t].moves) = 1
        /\ Has(x, PlayEvent(PLAYER2, 0, 0, "live"))
        /\ Has(t, PlayEvent(PLAYER1, 0, 0, "live")) /\ Len(sent[t]) = 2
        /\ JOIN[JoinKey(s)] = s /\ JOIN[JoinKey(t)] = t
====
